---------------------------- MODULE Spec2Model ----------------------------
(***************************************************************************)
(* Model of the InputForm component (src/src/components/InputForm.tsx):    *)
(* the submit handler with its two awaited collaborators, and the JSON and *)
(* CSV import handlers with their FileReader callbacks.                    *)
(*                                                                         *)
(* Text is modelled by TLA+ strings, inspected character by character with *)
(* Len and SubSeq.  The parent's three setters (setFlashcardSet,           *)
(* setLoading, setError) are modelled by the three channel variables       *)
(* flashcardSet, loading and error; every call an attempt makes is also    *)
(* recorded, in order, in that attempt's log, the way the jest mocks of    *)
(* the test suite record them.                                             *)
(***************************************************************************)
EXTENDS Integers, Sequences, FiniteSets, TLC

VARIABLES
    input,          \* useState('')      InputForm.tsx:18
    isUrlInput,     \* useState(true)    InputForm.tsx:17
    useMockMode,    \* useState(false)   InputForm.tsx:19
    loading,        \* value last passed to props.setLoading
    error,          \* value last passed to props.setError   (<<>> is null)
    flashcardSet,   \* value last passed to props.setFlashcardSet (<<>> is null)
    attempts,       \* every handler invocation so far, in start order
    uuidCounter,    \* number of uuidv4() calls so far
    clock           \* number of new Date() calls so far

vars == <<input, isUrlInput, useMockMode, loading, error, flashcardSet,
          attempts, uuidCounter, clock>>

-----------------------------------------------------------------------------
(* Bounds of the model.                                                    *)

MaxAttempts == 2

-----------------------------------------------------------------------------
(* Option values: null is the empty tuple, a value v is <<v>>.             *)

Null == <<>>
Some(v) == <<v>>

-----------------------------------------------------------------------------
(* JavaScript string primitives.                                           *)

\* s.charAt(i), 1-based: the empty string outside the string
CharAt(s, i) == IF 1 <= i /\ i <= Len(s) THEN SubSeq(s, i, i) ELSE ""

WhiteSpace == {" ", "\t", "\n", "\r"}

RECURSIVE TrimStart(_)
TrimStart(s) ==
    IF Len(s) > 0 /\ CharAt(s, 1) \in WhiteSpace
    THEN TrimStart(SubSeq(s, 2, Len(s)))
    ELSE s

RECURSIVE TrimEnd(_)
TrimEnd(s) ==
    IF Len(s) > 0 /\ CharAt(s, Len(s)) \in WhiteSpace
    THEN TrimEnd(SubSeq(s, 1, Len(s) - 1))
    ELSE s

\* String.prototype.trim
Trim(s) == TrimEnd(TrimStart(s))

\* String.prototype.includes
Includes(s, p) ==
    \E i \in 1..(Len(s) - Len(p) + 1) : SubSeq(s, i, i + Len(p) - 1) = p

\* String.prototype.indexOf from position `from` (1-based); 0 when absent
IndexFrom(s, p, from) ==
    LET hits == {i \in from..(Len(s) - Len(p) + 1) :
                    SubSeq(s, i, i + Len(p) - 1) = p}
    IN IF hits = {} THEN 0
       ELSE CHOOSE i \in hits : \A j \in hits : i <= j

\* String.prototype.lastIndexOf (1-based); 0 when absent
LastIndexOf(s, p) ==
    LET hits == {i \in 1..(Len(s) - Len(p) + 1) :
                    SubSeq(s, i, i + Len(p) - 1) = p}
    IN IF hits = {} THEN 0
       ELSE CHOOSE i \in hits : \A j \in hits : j <= i

Upper == "ABCDEFGHIJKLMNOPQRSTUVWXYZ"
Lower == "abcdefghijklmnopqrstuvwxyz"
Digits == "0123456789"

LowerChar(c) ==
    LET k == IndexFrom(Upper, c, 1)
    IN IF k = 0 THEN c ELSE CharAt(Lower, k)

RECURSIVE ToLowerCase(_)
ToLowerCase(s) ==
    IF Len(s) = 0 THEN s
    ELSE LowerChar(CharAt(s, 1)) \o ToLowerCase(SubSeq(s, 2, Len(s)))

\* s.replace(/c/g, r) for a one-character pattern c
RECURSIVE ReplaceAll(_, _, _)
ReplaceAll(s, c, r) ==
    IF Len(s) = 0 THEN s
    ELSE (IF CharAt(s, 1) = c THEN r ELSE CharAt(s, 1))
         \o ReplaceAll(SubSeq(s, 2, Len(s)), c, r)

\* s.startsWith(p, i), 1-based
StartsWithAt(s, p, i) ==
    i >= 1 /\ i + Len(p) - 1 <= Len(s) /\ SubSeq(s, i, i + Len(p) - 1) = p

\* s.endsWith(p)
EndsWith(s, p) == StartsWithAt(s, p, Len(s) - Len(p) + 1)

\* s.split(sep) for a one-character separator
RECURSIVE Split(_, _)
Split(s, sep) ==
    LET k == IndexFrom(s, sep, 1)
    IN IF k = 0 THEN << s >>
       ELSE << SubSeq(s, 1, k - 1) >> \o Split(SubSeq(s, k + 1, Len(s)), sep)

\* String(n) for an integer n
RECURSIVE NumberToString(_)
NumberToString(n) ==
    IF n < 0 THEN "-" \o NumberToString(0 - n)
    ELSE IF n < 10 THEN CharAt(Digits, n + 1)
    ELSE NumberToString(n \div 10) \o CharAt(Digits, (n % 10) + 1)

\* the integer written by a string of decimal digits
RECURSIVE DigitsToNumber(_)
DigitsToNumber(s) ==
    IF Len(s) = 0 THEN 0
    ELSE 10 * DigitsToNumber(SubSeq(s, 1, Len(s) - 1))
         + (IndexFrom(Digits, CharAt(s, Len(s)), 1) - 1)

-----------------------------------------------------------------------------
(* new URL(url): the WHATWG URL parser without a base URL, restricted to   *)
(* what the component reads (hostname, pathname).  Covered: stripping of   *)
(* surrounding whitespace, the scheme, special and non-special schemes,    *)
(* the slashes before the authority, user info, port, host lower-casing,   *)
(* rejection of an empty or malformed host, query and fragment, and the    *)
(* percent-encoding of the space, the quotation mark, the angle brackets   *)
(* and the braces in the path.  Not covered: percent-encoding of the grave *)
(* accent, of control and of non-ASCII characters, dot-segment removal,    *)
(* IP-address hosts and the file scheme, which no input of the model uses. *)

IsAlpha(c) == IndexFrom(Upper, c, 1) > 0 \/ IndexFrom(Lower, c, 1) > 0
IsDigit(c) == IndexFrom(Digits, c, 1) > 0

SpecialSchemes == {"http", "https", "ws", "wss", "ftp"}

\* characters that may not occur in a host
ForbiddenHostChars == {" ", "<", ">", "[", "]", "^", "|", "%", "\\"}

\* position of the first character of s that is in set cs, from `from`;
\* Len(s) + 1 when there is none
FirstOf(s, cs, from) ==
    LET hits == {i \in from..Len(s) : CharAt(s, i) \in cs}
    IN IF hits = {} THEN Len(s) + 1
       ELSE CHOOSE i \in hits : \A j \in hits : i <= j

\* position of the first character from `from` that is NOT in set cs
FirstNotOf(s, cs, from) ==
    LET hits == {i \in from..Len(s) : CharAt(s, i) \notin cs}
    IN IF hits = {} THEN Len(s) + 1
       ELSE CHOOSE i \in hits : \A j \in hits : i <= j

\* characters of the path percent-encode set, each with its encoding ('?'
\* and '#' end the path before it is encoded)
PathEncodeSet ==
    << <<" ", "%20">>, <<"\"", "%22">>, <<"<", "%3C">>, <<">", "%3E">>,
       <<"{", "%7B">>, <<"}", "%7D">> >>

\* the path as the parser stores it: the characters of the set encoded
RECURSIVE PathEncoded(_, _)
PathEncoded(path, n) ==
    IF n = 0 THEN path
    ELSE PathEncoded(ReplaceAll(path, PathEncodeSet[n][1], PathEncodeSet[n][2]),
                     n - 1)

URLFailure == [ok |-> FALSE, hostname |-> "", pathname |-> ""]

\* host[:port] of an authority whose user info has been removed
URLHostPort(auth, special, rest) ==
    LET colon == IndexFrom(auth, ":", 1)
        host  == IF colon = 0 THEN auth ELSE SubSeq(auth, 1, colon - 1)
        port  == IF colon = 0 THEN "" ELSE SubSeq(auth, colon + 1, Len(auth))
        pEnd  == FirstOf(rest, {"?", "#"}, 1)
        path  == SubSeq(rest, 1, pEnd - 1)
    IN IF \E i \in 1..Len(port) : ~IsDigit(CharAt(port, i)) THEN URLFailure
       ELSE IF \E i \in 1..Len(host) : CharAt(host, i) \in ForbiddenHostChars
            THEN URLFailure
       ELSE IF special /\ host = "" THEN URLFailure
       ELSE [ok |-> TRUE,
             hostname |-> ToLowerCase(host),
             pathname |-> IF special /\ path = "" THEN "/"
                          ELSE PathEncoded(path, Len(PathEncodeSet))]

\* the part after "scheme:" that starts at the authority
URLAuthority(s, special) ==
    LET aEnd == FirstOf(s, IF special THEN {"/", "\\", "?", "#"}
                                      ELSE {"/", "?", "#"}, 1)
        auth == SubSeq(s, 1, aEnd - 1)
        at   == LastIndexOf(auth, "@")
    IN URLHostPort(SubSeq(auth, at + 1, Len(auth)), special,
                   SubSeq(s, aEnd, Len(s)))

URLParse(url) ==
    LET s     == Trim(url)
        colon == IndexFrom(s, ":", 1)
        sch   == ToLowerCase(SubSeq(s, 1, colon - 1))
        after == SubSeq(s, colon + 1, Len(s))
    IN IF Len(s) = 0 \/ ~IsAlpha(CharAt(s, 1)) \/ colon = 0 THEN URLFailure
       ELSE IF \E i \in 1..Len(sch) :
                  LET c == CharAt(sch, i)
                  IN ~(IsAlpha(c) \/ IsDigit(c) \/ c \in {"+", "-", "."})
            THEN URLFailure
       ELSE IF sch \in SpecialSchemes
            THEN URLAuthority(
                     SubSeq(after, FirstNotOf(after, {"/", "\\"}, 1), Len(after)),
                     TRUE)
       ELSE IF Len(after) >= 2 /\ SubSeq(after, 1, 2) = "//"
            THEN URLAuthority(SubSeq(after, 3, Len(after)), FALSE)
       ELSE [ok |-> TRUE, hostname |-> "",
             pathname |-> SubSeq(after, 1, FirstOf(after, {"?", "#"}, 1) - 1)]

-----------------------------------------------------------------------------
(* The two pure helpers of the component.                                  *)

\* the test of isValidWikipediaUrl on the outcome of new URL(url)
\*                                                        InputForm.tsx:83-86
WikipediaLocation(parsedUrl) ==
    IF parsedUrl.ok
    THEN Includes(parsedUrl.hostname, "wikipedia.org")
         /\ Len(parsedUrl.pathname) > 1
    ELSE FALSE

isValidWikipediaUrl(url) == WikipediaLocation(URLParse(url))

\* pathname.split('/') then the last part with '_' replaced
\*                                                        InputForm.tsx:92-94
LastPartTitle(pathname) ==
    ReplaceAll(SubSeq(pathname, LastIndexOf(pathname, "/") + 1, Len(pathname)),
               "_", " ")

\* the title extractTitleFromUrl makes of the outcome of new URL(url)
\*                                                        InputForm.tsx:90-97
LocationTitle(parsedUrl) ==
    IF parsedUrl.ok THEN LastPartTitle(parsedUrl.pathname)
    ELSE "Wikipedia Flashcards"

extractTitleFromUrl(url) == LocationTitle(URLParse(url))

-----------------------------------------------------------------------------
(* JavaScript values, as JSON.parse produces them and as the import        *)
(* handler reads them: a tag t and a payload v.                            *)

JsUndefined == [t |-> "undefined", v |-> <<>>]
JsNull      == [t |-> "null", v |-> <<>>]
JsBoolean(b) == [t |-> "boolean", v |-> b]
JsNumber(n) == [t |-> "number", v |-> n]
JsString(s) == [t |-> "string", v |-> s]
JsArray(items) == [t |-> "array", v |-> items]
JsObject(fields) == [t |-> "object", v |-> fields]

\* ToBoolean: what `!x`, `x || y` and `x ? y : z` test
Truthy(x) ==
    CASE x.t \in {"undefined", "null"} -> FALSE
      [] x.t = "boolean" -> x.v
      [] x.t = "number" -> x.v # 0
      [] x.t = "string" -> x.v # ""
      [] OTHER -> TRUE

\* x.key for an x that is neither null nor undefined
Get(x, key) ==
    IF x.t = "object" /\ key \in DOMAIN x.v THEN x.v[key] ELSE JsUndefined

\* String(x)
RECURSIVE ToStr(_)
RECURSIVE Join(_)
ToStr(x) ==
    CASE x.t = "string" -> x.v
      [] x.t = "number" -> NumberToString(x.v)
      [] x.t = "boolean" -> IF x.v THEN "true" ELSE "false"
      [] x.t = "array" -> Join(x.v)
      [] x.t = "object" -> "[object Object]"
      [] OTHER -> x.t

\* Array.prototype.join(): null and undefined elements print as nothing
Join(items) ==
    LET one(x) == IF x.t \in {"undefined", "null"} THEN "" ELSE ToStr(x)
    IN IF Len(items) = 0 THEN ""
       ELSE IF Len(items) = 1 THEN one(items[1])
       ELSE one(items[1]) \o "," \o Join(Tail(items))

\* the TypeError of reading a property of null or undefined (V8's wording)
TypeErrorMessage(x, key) ==
    "Cannot read properties of " \o x.t \o " (reading '" \o key \o "')"

-----------------------------------------------------------------------------
(* JSON.parse(text): objects, arrays, strings without escapes, integers,   *)
(* true, false, null and white space.  A result is [ok, val, next]: next   *)
(* is the position after the value parsed.                                 *)

JsonFail == [ok |-> FALSE, val |-> JsUndefined, next |-> 0]
JsonOk(val, next) == [ok |-> TRUE, val |-> val, next |-> next]

DigitSet == {CharAt(Digits, i) : i \in 1..Len(Digits)}

SkipWs(s, i) == FirstNotOf(s, WhiteSpace, i)

\* a string literal that opens at position i
JsonString(s, i) ==
    LET close == IndexFrom(s, "\"", i + 1)
    IN IF CharAt(s, i) # "\"" \/ close = 0 THEN JsonFail
       ELSE JsonOk(JsString(SubSeq(s, i + 1, close - 1)), close + 1)

\* an integer literal that starts at position i
JsonNumber(s, i) ==
    LET from == IF CharAt(s, i) = "-" THEN i + 1 ELSE i
        to   == FirstNotOf(s, DigitSet, from)
        n    == DigitsToNumber(SubSeq(s, from, to - 1))
    IN IF to = from THEN JsonFail
       ELSE JsonOk(JsNumber(IF from = i THEN n ELSE 0 - n), to)

RECURSIVE JsonValue(_, _)
RECURSIVE JsonElements(_, _, _)
RECURSIVE JsonMembers(_, _, _)

\* after the element e of an array: a comma and more elements, or the end
JsonElement(s, e, acc) ==
    IF ~e.ok THEN JsonFail
    ELSE IF CharAt(s, SkipWs(s, e.next)) = ","
         THEN JsonElements(s, SkipWs(s, e.next) + 1, Append(acc, e.val))
    ELSE IF CharAt(s, SkipWs(s, e.next)) = "]"
         THEN JsonOk(JsArray(Append(acc, e.val)), SkipWs(s, e.next) + 1)
    ELSE JsonFail

\* acc with the member key: val added or replaced
WithMember(acc, key, val) ==
    [name \in DOMAIN acc \cup {key} |-> IF name = key THEN val ELSE acc[name]]

\* after the value e of the member key: a comma and more members, or the end
JsonMemberValue(s, key, e, acc) ==
    IF ~e.ok THEN JsonFail
    ELSE IF CharAt(s, SkipWs(s, e.next)) = ","
         THEN JsonMembers(s, SkipWs(s, e.next) + 1, WithMember(acc, key, e.val))
    ELSE IF CharAt(s, SkipWs(s, e.next)) = "}"
         THEN JsonOk(JsObject(WithMember(acc, key, e.val)),
                     SkipWs(s, e.next) + 1)
    ELSE JsonFail

\* after the key k of a member: a colon and the member's value
JsonMember(s, k, acc) ==
    IF ~k.ok \/ CharAt(s, SkipWs(s, k.next)) # ":" THEN JsonFail
    ELSE JsonMemberValue(s, k.val.v, JsonValue(s, SkipWs(s, k.next) + 1), acc)

JsonValue(s, i0) ==
    LET i == SkipWs(s, i0)
        c == CharAt(s, i)
    IN CASE c = "{" ->
              IF CharAt(s, SkipWs(s, i + 1)) = "}"
              THEN JsonOk(JsObject(<<>>), SkipWs(s, i + 1) + 1)
              ELSE JsonMembers(s, i + 1, <<>>)
         [] c = "[" ->
              IF CharAt(s, SkipWs(s, i + 1)) = "]"
              THEN JsonOk(JsArray(<<>>), SkipWs(s, i + 1) + 1)
              ELSE JsonElements(s, i + 1, <<>>)
         [] c = "\"" -> JsonString(s, i)
         [] c = "-" \/ c \in DigitSet -> JsonNumber(s, i)
         [] StartsWithAt(s, "true", i) -> JsonOk(JsBoolean(TRUE), i + 4)
         [] StartsWithAt(s, "false", i) -> JsonOk(JsBoolean(FALSE), i + 5)
         [] StartsWithAt(s, "null", i) -> JsonOk(JsNull, i + 4)
         [] OTHER -> JsonFail

\* the elements of an array, from position i, after the elements acc
JsonElements(s, i, acc) == JsonElement(s, JsonValue(s, i), acc)

\* the members of an object, from position i, after the members acc
JsonMembers(s, i, acc) == JsonMember(s, JsonString(s, SkipWs(s, i)), acc)

\* JSON.parse: the value, or a SyntaxError
JsonWhole(text, r) ==
    IF r.ok /\ SkipWs(text, r.next) > Len(text) THEN r ELSE JsonFail

JSONParse(text) == JsonWhole(text, JsonValue(text, 1))

-----------------------------------------------------------------------------
(* Values the environment supplies.                                        *)

\* what the user can type into the textarea
Inputs ==
    { "  ",
      "https://en.wikipedia.org/wiki/Alan_Turing",
      "https://example.com/x",
      "Some text" }

\* further references the user can type: hosts that embed the name of the
\* document source, the bare domain, a reference without a path, a title
\* typed with a space
References ==
    { "https://en.wikipedia.org/wiki/Alan_Turing",
      "https://en.wikipedia.org/wiki/Alan Turing",
      "https://wikipedia.org/wiki/Alan_Turing",
      "https://wikipedia.org.evil.com/x",
      "https://notwikipedia.org/wiki/X",
      "https://en.wikipedia.org",
      "https://example.com/x",
      "en.wikipedia.org/wiki/Alan_Turing",
      "  " }

\* config.defaultApiKey as returned by getLLMConfig(): absent, blank, set
ApiKeys == { Null, Some("  "), Some("sk-test") }

\* what fetchWikipediaContent can resolve with
WikiContents ==
    { [title |-> "Alan Turing - Wikipedia",
       content |-> "Alan Turing was a mathematician."] }

\* what extractFlashcards can resolve with
ExtractedCards ==
    { <<>>,
      << [id |-> JsString("1"), question |-> "Who was Turing?",
          answer |-> "A mathematician"] >> }

\* what a collaborator can throw: an Error with a message, or another value
Thrown ==
    { [isError |-> TRUE,  message |-> "Network error"],
      [isError |-> FALSE, message |-> "" ] }

\* the files the user can pick in a file dialog
JsonFiles ==
    { [name |-> "deck.json",
       text |-> "{\"title\":\"Deck\",\"source\":\"S\",\"cards\":["
                \o "{\"id\":\"1\",\"question\":\"Q1\",\"answer\":\"A1\"},"
                \o "{\"question\":\"Q2\",\"answer\":\"A2\"}]}"],
      [name |-> "half.JSON",
       text |-> "{\"cards\":[{\"question\":\"Q\"}]}"],
      [name |-> "broken.json",
       text |-> "invalid json content"] }

\* further JSON files: an export of the app, an object without title, two
\* records with one id, a whitespace-only question, no record, a bare list
MoreJsonFiles ==
    { [name |-> "export.json",
       text |-> "{\"title\":\"Deck\",\"source\":\"S\",\"cards\":["
                \o "{\"id\":\"1\",\"question\":\"Q1\",\"answer\":\"A1\"},"
                \o "{\"id\":\"2\",\"question\":\"Q2\",\"answer\":\"A2\"}]}"],
      [name |-> "plain.json",
       text |-> "{\"cards\":[{\"question\":\"Q1\",\"answer\":\"A1\"}]}"],
      [name |-> "twins.json",
       text |-> "{\"cards\":["
                \o "{\"id\":\"1\",\"question\":\"Q1\",\"answer\":\"A1\"},"
                \o "{\"id\":\"1\",\"question\":\"Q2\",\"answer\":\"A2\"}]}"],
      [name |-> "blank.json",
       text |-> "{\"cards\":[{\"question\":\" \",\"answer\":\"A\"}]}"],
      [name |-> "empty.json",
       text |-> "{\"cards\":[]}"],
      [name |-> "list.json",
       text |-> "[{\"question\":\"Q\",\"answer\":\"A\"}]"] }

CsvFiles ==
    { [name |-> "deck.csv",
       text |-> "Question,Answer\n\"Q1\",\"A1\"\n\"Q2\",\"A2\""],
      [name |-> "gaps.CSV",
       text |-> "Answer,Question\nA1,Q1\nA2\n,Q3\n"],
      [name |-> "other.csv",
       text |-> "Title,Description\n\"React\",\"A library\""] }

\* further CSV files: longer column names, no complete row, a header
\* alone, a quoted field with a comma
MoreCsvFiles ==
    { [name |-> "terms.csv",
       text |-> "Question Text,Answer Text\nQ1,A1"],
      [name |-> "void.csv",
       text |-> "Question,Answer\nQ1\n,A2"],
      [name |-> "holes.csv",
       text |-> "Question,Answer\nQ1\nQ2,A2\n,A3\nQ4,A4"],
      [name |-> "lone.csv",
       text |-> "Question,Answer\n"],
      [name |-> "comma.csv",
       text |-> "Question,Answer\n\"Hello, world\",\"A\""] }

\* a file of neither kind
TextFile == [name |-> "notes.txt", text |-> "some text"]

\* event.target.files is empty
NoFile == [name |-> "", text |-> ""]

-----------------------------------------------------------------------------
(* Attempts and their call logs.  An attempt is one invocation of a        *)
(* handler; its log lists, in order, the calls it made to the parent's     *)
(* setters and to its collaborators, and the outcomes of its awaits.       *)

Call(fn, arg) == [fn |-> fn, arg |-> arg]

\* where a handler stands after a run of its code: its position, the text
\* it holds in `content`, and the calls it made on the way
Step(pc, content, calls) == [pc |-> pc, content |-> content, calls |-> calls]

\* the step that makes `calls` and then goes on as `step`
Prepend(calls, step) == [step EXCEPT !.calls = calls \o @]

\* an attempt: for a submit, input, isUrl and mock are the values of the
\* render it started in; for an import, input and name are the file's
NewAttempt(kind, text, name, isUrl, mock, step) ==
    [kind |-> kind, input |-> text, name |-> name,
     isUrl |-> isUrl, mock |-> mock,
     pc |-> step.pc, content |-> step.content, log |-> step.calls]

Continue(a, step) ==
    [attempts EXCEPT ![a].pc = step.pc, ![a].content = step.content,
                     ![a].log = @ \o step.calls]

Awaiting(a, pc) == a \in 1..Len(attempts) /\ attempts[a].pc = pc

\* argument of the last call to fn among calls, or default
LastArg(calls, fn, default) ==
    LET idx == {i \in 1..Len(calls) : calls[i].fn = fn}
    IN IF idx = {} THEN default
       ELSE calls[CHOOSE i \in idx : \A j \in idx : j <= i].arg

\* the parent's state after the setter calls among calls
Deliver(calls) ==
    /\ error' = LastArg(calls, "setError", error)
    /\ loading' = LastArg(calls, "setLoading", loading)
    /\ flashcardSet' = LastArg(calls, "setFlashcardSet", flashcardSet)

\* new Date() at clock value n, and new Date(x) for a value x of a file
Now(n) == [from |-> "clock", value |-> JsNumber(n)]
DateOf(x) == [from |-> "file", value |-> x]

\* a thrown Error with a message
Error(message) == [isError |-> TRUE, message |-> message]

-----------------------------------------------------------------------------
(* The form controls.                                                      *)

Init ==
    /\ input = ""
    /\ isUrlInput = TRUE
    /\ useMockMode \in BOOLEAN      \* localStorage 'use_mock_mode'
    /\ loading = FALSE
    /\ error = Null
    /\ flashcardSet = Null
    /\ attempts = <<>>
    /\ uuidCounter = 0
    /\ clock = 0

\* the model follows the form controls as long as a handler can still start
MoreToCome == Len(attempts) < MaxAttempts

setInput(text) ==
    /\ MoreToCome
    /\ input' = text
    /\ UNCHANGED <<isUrlInput, useMockMode, loading, error, flashcardSet,
                   attempts, uuidCounter, clock>>

setIsUrlInput(b) ==
    /\ MoreToCome
    /\ isUrlInput' = b
    /\ UNCHANGED <<input, useMockMode, loading, error, flashcardSet,
                   attempts, uuidCounter, clock>>

setUseMockMode(b) ==
    /\ MoreToCome
    /\ useMockMode' = b
    /\ UNCHANGED <<input, isUrlInput, loading, error, flashcardSet,
                   attempts, uuidCounter, clock>>

-----------------------------------------------------------------------------
(* handleSubmit.  The handler runs without interruption up to its first    *)
(* await; each continuation after an await is a step of its own.  The      *)
(* values of input, isUrlInput and useMockMode it uses are those of the    *)
(* render in which it was started.                                         *)

\* (variant: the test without the trim)
Blank_NoTrim(s) == s = ""

\* !s.trim()                                              InputForm.tsx:35,42
Blank(s) == Trim(s) = ""

\* extractFlashcards(content, undefined, useMockMode)        InputForm.tsx:65
ExtractCall(content, mock) ==
    Call("extractFlashcards", [text |-> content, useMockMode |-> mock])

\* (variant: the thrown message is dropped)
SubmitErrorMessage_Generic(thrown) == "Error: Unknown error occurred"

\* catch (error) { setError(`Error: ${...}`) }               InputForm.tsx:74
SubmitErrorMessage(thrown) ==
    "Error: " \o (IF thrown.isError THEN thrown.message
                                    ELSE "Unknown error occurred")

\* (variant: no finally block)
OnThrown_NoFinally(thrown) ==
    Step("done", "",
         << Call("setError", Some(SubmitErrorMessage(thrown))) >>)

\* catch and finally                                      InputForm.tsx:73-77
OnThrown(thrown) ==
    Step("done", "",
         << Call("setError", Some(SubmitErrorMessage(thrown))),
            Call("setLoading", FALSE) >>)

\* (variant: the invalid-URL branch does not return)
UrlBranch_NoReturn(text) ==
    Step("fetch", text,
         (IF ~isValidWikipediaUrl(text)
          THEN << Call("setError", Some("Please enter a valid Wikipedia URL")) >>
          ELSE <<>>)
         \o << Call("fetchWikipediaContent", text) >>)

\* the URL branch of the try block                        InputForm.tsx:53-63
UrlBranch(text) ==
    IF ~isValidWikipediaUrl(text)
    THEN Step("done", text,
              << Call("setError", Some("Please enter a valid Wikipedia URL")),
                 Call("setLoading", FALSE),
                 Call("setLoading", FALSE) >>)
    ELSE Step("fetch", text, << Call("fetchWikipediaContent", text) >>)

\* the try block up to its first await                    InputForm.tsx:47-65
TryBlock(text, isUrl, mock) ==
    Prepend(<< Call("setLoading", TRUE) >>,
            IF isUrl THEN UrlBranch(text)
            ELSE Step("extract", text, << ExtractCall(text, mock) >>))

\* handleSubmit from its call to its first await or return InputForm.tsx:31-65
SubmitStart(text, isUrl, mock, apiKey) ==
    LET first == << Call("setError", Null) >>
        config == << Call("getLLMConfig", apiKey) >>
    IN IF Blank(text)
       THEN Step("done", "", first \o
                 << Call("setError",
                         Some("Please enter a Wikipedia URL or text")) >>)
       ELSE IF apiKey = Null \/ Blank(apiKey[1])
       THEN Step("done", "", first \o config \o
                 << Call("setError",
                         Some("Please set your API key in LLM Settings")) >>)
       ELSE Prepend(first \o config, TryBlock(text, isUrl, mock))

handleSubmit(apiKey) ==
    /\ Len(attempts) < MaxAttempts
    /\ \E step \in {SubmitStart(input, isUrlInput, useMockMode, apiKey)} :
          /\ attempts' = Append(attempts,
                                NewAttempt("submit", input, "", isUrlInput,
                                           useMockMode, step))
          /\ Deliver(step.calls)
    /\ UNCHANGED <<input, isUrlInput, useMockMode, uuidCounter, clock>>

\* (variant: content is not replaced by the fetched text)
AfterFetch_RawInput(att, wikiContent) ==
    Step("extract", att.input, << ExtractCall(att.input, att.mock) >>)

\* (variant: the preference is read again after the await)
AfterFetch_LivePreference(att, wikiContent) ==
    Step("extract", wikiContent.content,
         << ExtractCall(wikiContent.content, useMockMode) >>)

\* after await fetchWikipediaContent(input) returned      InputForm.tsx:60-65
AfterFetch(att, wikiContent) ==
    Step("extract", wikiContent.content,
         << ExtractCall(wikiContent.content, att.mock) >>)

fetchResolved(a, wikiContent) ==
    /\ Awaiting(a, "fetch")
    /\ attempts' =
         Continue(a, Prepend(<< Call("fetchWikipediaContent.resolved",
                                     wikiContent) >>,
                             AfterFetch(attempts[a], wikiContent)))
    /\ UNCHANGED <<input, isUrlInput, useMockMode, loading, error,
                   flashcardSet, uuidCounter, clock>>

\* (variant: the fetch failure is swallowed and the raw input extracted)
AfterFetchThrew_GoesOn(att, thrown) ==
    Step("extract", att.input, << ExtractCall(att.input, att.mock) >>)

\* after await fetchWikipediaContent(input) threw      InputForm.tsx:60,73-77
AfterFetchThrew(att, thrown) == OnThrown(thrown)

fetchRejected(a, thrown) ==
    /\ Awaiting(a, "fetch")
    /\ \E step \in {Prepend(<< Call("fetchWikipediaContent.rejected",
                                    thrown) >>,
                            AfterFetchThrew(attempts[a], thrown))} :
          /\ attempts' = Continue(a, step)
          /\ Deliver(step.calls)
    /\ UNCHANGED <<input, isUrlInput, useMockMode, uuidCounter, clock>>

\* (variant: title and source do not depend on the mode)
SubmitFlashcardSet_AlwaysUrl(att, flashcards, now) ==
    [title |-> JsString(extractTitleFromUrl(att.input)),
     source |-> att.input,
     cards |-> flashcards,
     createdAt |-> Now(now)]

\* the FlashcardSet handleSubmit builds                   InputForm.tsx:67-72
SubmitFlashcardSet(att, flashcards, now) ==
    [title |-> JsString(IF att.isUrl THEN extractTitleFromUrl(att.input)
                                     ELSE "Custom Text Flashcards"),
     source |-> IF att.isUrl THEN att.input ELSE "Custom text",
     cards |-> flashcards,
     createdAt |-> Now(now)]

\* after await extractFlashcards(...) returned            InputForm.tsx:65-77
AfterExtract(att, flashcards, now) ==
    Step("done", att.content,
         << Call("setFlashcardSet",
                 Some(SubmitFlashcardSet(att, flashcards, now))),
            Call("setLoading", FALSE) >>)

extractResolved(a, flashcards) ==
    /\ Awaiting(a, "extract")
    /\ clock' = clock + 1
    /\ \E step \in {Prepend(<< Call("extractFlashcards.resolved",
                                    flashcards) >>,
                            AfterExtract(attempts[a], flashcards, clock'))} :
          /\ attempts' = Continue(a, step)
          /\ Deliver(step.calls)
    /\ UNCHANGED <<input, isUrlInput, useMockMode, uuidCounter>>

\* after await extractFlashcards(...) threw            InputForm.tsx:65,73-77
AfterExtractThrew(att, thrown) == OnThrown(thrown)

extractRejected(a, thrown) ==
    /\ Awaiting(a, "extract")
    /\ \E step \in {Prepend(<< Call("extractFlashcards.rejected",
                                    thrown) >>,
                            AfterExtractThrew(attempts[a], thrown))} :
          /\ attempts' = Continue(a, step)
          /\ Deliver(step.calls)
    /\ UNCHANGED <<input, isUrlInput, useMockMode, uuidCounter, clock>>

-----------------------------------------------------------------------------
(* handleJSONFileChange and the callbacks of its FileReader.               *)

\* what a FileReader callback did: its setter calls, the number of uuidv4()
\* calls it reached and whether it reached new Date()
Ran(calls, uuids, dated) == [calls |-> calls, uuids |-> uuids, dated |-> dated]

\* uuidv4(): the n-th identifier drawn
Uuid(n) == JsString("uuid-" \o NumberToString(n))

\* data.cards.map(...) from the card at `index` (1-based) on; acc are the
\* cards validated so far and uuids the uuidv4() calls made so far
\*                                                       InputForm.tsx:133-142
RECURSIVE ValidatedCards(_, _, _, _)
ValidatedCards(cards, index, acc, uuids) ==
    IF index > Len(cards)
    THEN [threw |-> FALSE, thrown |-> Error(""), cards |-> acc, uuids |-> uuids]
    ELSE LET card == cards[index]
             fail(e) == [threw |-> TRUE, thrown |-> e, cards |-> acc,
                         uuids |-> uuids]
         IN IF card.t \in {"null", "undefined"}
            THEN fail(Error(TypeErrorMessage(card, "question")))
            ELSE IF ~Truthy(Get(card, "question")) \/ ~Truthy(Get(card, "answer"))
            THEN fail(Error("Invalid card at index "
                            \o NumberToString(index - 1)
                            \o ": missing question or answer"))
            ELSE IF Truthy(Get(card, "id"))
            THEN ValidatedCards(cards, index + 1,
                     Append(acc, [id |-> Get(card, "id"),
                                  question |-> ToStr(Get(card, "question")),
                                  answer |-> ToStr(Get(card, "answer"))]),
                     uuids)
            ELSE ValidatedCards(cards, index + 1,
                     Append(acc, [id |-> Uuid(uuids + 1),
                                  question |-> ToStr(Get(card, "question")),
                                  answer |-> ToStr(Get(card, "answer"))]),
                     uuids + 1)

\* (variant: the source the file carries is kept)
JsonFlashcardSet_KeepsSource(data, validatedCards, now) ==
    [title |-> IF Truthy(Get(data, "title")) THEN Get(data, "title")
               ELSE JsString("Imported JSON Flashcards"),
     source |-> IF Truthy(Get(data, "source")) THEN ToStr(Get(data, "source"))
                ELSE "JSON Import",
     cards |-> validatedCards,
     createdAt |-> IF Truthy(Get(data, "createdAt"))
                   THEN DateOf(Get(data, "createdAt"))
                   ELSE Now(now)]

\* the FlashcardSet the JSON import builds               InputForm.tsx:144-149
JsonFlashcardSet(data, validatedCards, now) ==
    [title |-> IF Truthy(Get(data, "title")) THEN Get(data, "title")
               ELSE JsString("Imported JSON Flashcards"),
     source |-> "JSON Import",
     cards |-> validatedCards,
     createdAt |-> IF Truthy(Get(data, "createdAt"))
                   THEN DateOf(Get(data, "createdAt"))
                   ELSE Now(now)]

\* catch (error) of the JSON reader.onload                  InputForm.tsx:154
JsonErrorMessage(thrown) ==
    "Error importing JSON: " \o (IF thrown.isError THEN thrown.message
                                                   ELSE "Invalid file format")

\* a try block left by throwing e after n calls of uuidv4()
Threw(e, n) == [threw |-> TRUE, thrown |-> e, ran |-> Ran(<<>>, n, FALSE)]

\* a try block that ran to its end
Completed(ran) == [threw |-> FALSE, thrown |-> Error(""), ran |-> ran]

\* the try block once data.cards.map(...) has run as `valid`
\*                                                       InputForm.tsx:133-152
JsonMapped(data, valid, uuids, now) ==
    IF valid.threw
    THEN Threw(valid.thrown, valid.uuids - uuids)
    ELSE Completed(Ran(<< Call("setFlashcardSet",
                               Some(JsonFlashcardSet(data, valid.cards, now))),
                          Call("setError", Null) >>,
                       valid.uuids - uuids,
                       ~Truthy(Get(data, "createdAt"))))

\* (variant: a top-level list is read as the list of cards)
JsonData_AnyList(data, uuids, now) ==
    IF data.t \in {"null", "undefined"}
    THEN Threw(Error(TypeErrorMessage(data, "cards")), 0)
    ELSE IF data.t = "array"
    THEN JsonMapped(data, ValidatedCards(data.v, 1, <<>>, uuids), uuids, now)
    ELSE IF ~Truthy(Get(data, "cards")) \/ Get(data, "cards").t # "array"
    THEN Threw(Error("Invalid JSON format: missing or invalid cards array"), 0)
    ELSE JsonMapped(data,
                    ValidatedCards(Get(data, "cards").v, 1, <<>>, uuids),
                    uuids, now)

\* the try block once JSON.parse returned data          InputForm.tsx:127-152
JsonData(data, uuids, now) ==
    IF data.t \in {"null", "undefined"}
    THEN Threw(Error(TypeErrorMessage(data, "cards")), 0)
    ELSE IF ~Truthy(Get(data, "cards")) \/ Get(data, "cards").t # "array"
    THEN Threw(Error("Invalid JSON format: missing or invalid cards array"), 0)
    ELSE JsonMapped(data,
                    ValidatedCards(Get(data, "cards").v, 1, <<>>, uuids),
                    uuids, now)

\* the try block after JSON.parse(content) ended as `parsed`
\*                                                       InputForm.tsx:125-152
JsonParsed(parsed, uuids, now) ==
    IF ~parsed.ok
    THEN Threw(Error("Unexpected token in JSON"), 0)
    ELSE JsonData(parsed.val, uuids, now)

\* the try block of the JSON reader.onload: the Error it throws, or the
\* calls it makes                                        InputForm.tsx:123-152
JsonTry(content, uuids, now) == JsonParsed(JSONParse(content), uuids, now)

\* (variant: the catch block reports nothing)
JsonCatch_Swallows(try) ==
    IF try.threw THEN Ran(<<>>, try.ran.uuids, FALSE) ELSE try.ran

\* (variant: the catch block withdraws the Collection on display as well)
JsonCatch_ClearsResult(try) ==
    IF try.threw
    THEN Ran(<< Call("setFlashcardSet", Null),
                Call("setError", Some(JsonErrorMessage(try.thrown))) >>,
             try.ran.uuids, FALSE)
    ELSE try.ran

\* the catch block of the JSON reader.onload after its try block ran as
\* `try`                                                 InputForm.tsx:153-155
JsonCatch(try) ==
    IF try.threw
    THEN Ran(<< Call("setError", Some(JsonErrorMessage(try.thrown))) >>,
             try.ran.uuids, FALSE)
    ELSE try.ran

\* reader.onload of the JSON import                      InputForm.tsx:122-156
JsonOnload(content, uuids, now) == JsonCatch(JsonTry(content, uuids, now))

\* reader.onerror                                 InputForm.tsx:158-160,232-234
ReaderOnerror == Ran(<< Call("setError", Some("Error reading file")) >>, 0, FALSE)

\* (variant: the import goes through the credential check of the submit)
JsonFileChange_NeedsKey(file) ==
    Step("done", "",
         << Call("getLLMConfig", Null),
            Call("setError", Some("Please set your API key in LLM Settings")) >>)

\* handleJSONFileChange up to reader.readAsText(file)    InputForm.tsx:112-165
JsonFileChange(file) ==
    IF ~EndsWith(ToLowerCase(file.name), ".json")
    THEN Step("done", "",
              << Call("setError", Some("Please select a valid JSON file")) >>)
    ELSE Step("reading", "", << Call("readAsText", file.name) >>)

\* a handler that starts an attempt on a file
FileChange(kind, file, step) ==
    /\ Len(attempts) < MaxAttempts
    /\ IF file = NoFile
       THEN UNCHANGED <<attempts, error, loading, flashcardSet>>
       ELSE /\ attempts' = Append(attempts,
                                  NewAttempt(kind, file.text, file.name,
                                             FALSE, FALSE, step))
            /\ Deliver(step.calls)
    /\ UNCHANGED <<input, isUrlInput, useMockMode, uuidCounter, clock>>

\* a FileReader callback of attempt a that ran as `ran`
ReaderCallback(a, event, ran) ==
    /\ attempts' = Continue(a, Step("done", attempts[a].input,
                                    << Call(event, attempts[a].name) >>
                                    \o ran.calls))
    /\ Deliver(ran.calls)
    /\ uuidCounter' = uuidCounter + ran.uuids
    /\ clock' = IF ran.dated THEN clock + 1 ELSE clock
    /\ UNCHANGED <<input, isUrlInput, useMockMode>>

handleJSONFileChange(file) ==
    \E step \in {JsonFileChange(file)} : FileChange("json", file, step)

jsonReaderOnload(a) ==
    /\ Awaiting(a, "reading") /\ attempts[a].kind = "json"
    /\ \E ran \in {JsonOnload(attempts[a].input, uuidCounter, clock + 1)} :
          ReaderCallback(a, "reader.onload", ran)

jsonReaderOnerror(a) ==
    /\ Awaiting(a, "reading") /\ attempts[a].kind = "json"
    /\ \E ran \in {ReaderOnerror} : ReaderCallback(a, "reader.onerror", ran)

-----------------------------------------------------------------------------
(* handleCSVFileChange and the callbacks of its FileReader.                *)

\* (variant: the first x that contains wanted)
FindIndex_Contains(xs, wanted) ==
    LET hits == {i \in 1..Len(xs) : Includes(xs[i], wanted)}
    IN IF hits = {} THEN 0
       ELSE CHOOSE i \in hits : \A j \in hits : i <= j

\* xs.findIndex(x => x === wanted), 1-based; 0 stands for -1
FindIndex(xs, wanted) ==
    LET hits == {i \in 1..Len(xs) : xs[i] = wanted}
    IN IF hits = {} THEN 0
       ELSE CHOOSE i \in hits : \A j \in hits : i <= j

\* h.replace(/"/g, '').trim().toLowerCase()                 InputForm.tsx:186
HeaderName(h) == ToLowerCase(Trim(ReplaceAll(h, "\"", "")))

\* v.replace(/^"|"$/g, '').trim()                           InputForm.tsx:196
FieldValue(v) ==
    LET open == IF StartsWithAt(v, "\"", 1) THEN SubSeq(v, 2, Len(v)) ELSE v
        shut == IF EndsWith(open, "\"") THEN SubSeq(open, 1, Len(open) - 1)
                ELSE open
    IN Trim(shut)

NonBlankLine(line) == Trim(line) # ""

\* content.split('\n').filter(line => line.trim())             InputForm.tsx:180
Lines(content) == SelectSeq(Split(content, "\n"), NonBlankLine)

\* lines[0].split(',').map(...)                                InputForm.tsx:186
Headers(line) ==
    LET cells == Split(line, ",")
    IN [i \in 1..Len(cells) |-> HeaderName(cells[i])]

\* lines[i].split(',').map(...)                                InputForm.tsx:196
Values(line) ==
    LET cells == Split(line, ",")
    IN [i \in 1..Len(cells) |-> FieldValue(cells[i])]

\* (variant: the loop ends at the first incomplete row)
RECURSIVE CsvCards_StopsAtGap(_, _, _, _, _, _)
CsvCards_StopsAtGap(lines, i, questionIndex, answerIndex, cards, uuids) ==
    IF i > Len(lines) THEN [cards |-> cards, uuids |-> uuids]
    ELSE LET values   == Values(lines[i])
             longest  == IF questionIndex > answerIndex THEN questionIndex
                         ELSE answerIndex
         IN IF Len(values) < longest
            THEN [cards |-> cards, uuids |-> uuids]
            ELSE IF values[questionIndex] # "" /\ values[answerIndex] # ""
            THEN CsvCards_StopsAtGap(lines, i + 1, questionIndex, answerIndex,
                          Append(cards, [id |-> Uuid(uuids + 1),
                                         question |-> values[questionIndex],
                                         answer |-> values[answerIndex]]),
                          uuids + 1)
            ELSE CsvCards_StopsAtGap(lines, i + 1, questionIndex, answerIndex,
                                     cards, uuids)

\* the loop over the data lines, from line i on           InputForm.tsx:194-212
RECURSIVE CsvCards(_, _, _, _, _, _)
CsvCards(lines, i, questionIndex, answerIndex, cards, uuids) ==
    IF i > Len(lines) THEN [cards |-> cards, uuids |-> uuids]
    ELSE LET values   == Values(lines[i])
             longest  == IF questionIndex > answerIndex THEN questionIndex
                         ELSE answerIndex
         IN IF Len(values) < longest
            THEN CsvCards(lines, i + 1, questionIndex, answerIndex, cards,
                          uuids)
            ELSE IF values[questionIndex] # "" /\ values[answerIndex] # ""
            THEN CsvCards(lines, i + 1, questionIndex, answerIndex,
                          Append(cards, [id |-> Uuid(uuids + 1),
                                         question |-> values[questionIndex],
                                         answer |-> values[answerIndex]]),
                          uuids + 1)
            ELSE CsvCards(lines, i + 1, questionIndex, answerIndex, cards,
                          uuids)

\* (variant: the labels of the JSON import, copied)
CsvFlashcardSet_JsonLabels(cards, now) ==
    [title |-> JsString("Imported JSON Flashcards"),
     source |-> "JSON Import",
     cards |-> cards,
     createdAt |-> Now(now)]

\* (variant: the title carries the time of the import)
CsvFlashcardSet_Dated(cards, now) ==
    [title |-> JsString("Imported CSV Flashcards " \o NumberToString(now)),
     source |-> "CSV Import",
     cards |-> cards,
     createdAt |-> Now(now)]

\* the FlashcardSet the CSV import builds                 InputForm.tsx:218-223
CsvFlashcardSet(cards, now) ==
    [title |-> JsString("Imported CSV Flashcards"),
     source |-> "CSV Import",
     cards |-> cards,
     createdAt |-> Now(now)]

\* catch (error) of the CSV reader.onload                    InputForm.tsx:228
CsvErrorMessage(thrown) ==
    "Error importing CSV: " \o (IF thrown.isError THEN thrown.message
                                                  ELSE "Invalid file format")

\* (variant: an empty list of cards is delivered as well)
CsvMade_AllowsEmpty(made, uuids, now) ==
    Completed(Ran(<< Call("setFlashcardSet",
                          Some(CsvFlashcardSet(made.cards, now))),
                     Call("setError", Null) >>,
                  made.uuids - uuids, TRUE))

\* the try block once the loop over the data lines has run as `made`
\*                                                       InputForm.tsx:214-226
CsvMade(made, uuids, now) ==
    IF Len(made.cards) = 0
    THEN Threw(Error("No valid flashcards found in CSV file"), 0)
    ELSE Completed(Ran(<< Call("setFlashcardSet",
                               Some(CsvFlashcardSet(made.cards, now))),
                          Call("setError", Null) >>,
                       made.uuids - uuids, TRUE))

\* the try block once the two columns have been looked up
\*                                                       InputForm.tsx:190-226
CsvColumns(lines, questionIndex, answerIndex, uuids, now) ==
    IF questionIndex = 0 \/ answerIndex = 0
    THEN Threw(Error("CSV file must contain \"Question\" and "
                     \o "\"Answer\" columns"), 0)
    ELSE CsvMade(CsvCards(lines, 2, questionIndex, answerIndex, <<>>, uuids),
                 uuids, now)

\* the try block once the header line has been split    InputForm.tsx:187-226
CsvHeaders(lines, headers, uuids, now) ==
    CsvColumns(lines, FindIndex(headers, "question"),
               FindIndex(headers, "answer"), uuids, now)

\* the try block once the content has been split into lines
\*                                                       InputForm.tsx:182-226
CsvLines(lines, uuids, now) ==
    IF Len(lines) < 2
    THEN Threw(Error("CSV file must contain at least a header row "
                     \o "and one data row"), 0)
    ELSE CsvHeaders(lines, Headers(lines[1]), uuids, now)

\* the try block of the CSV reader.onload                 InputForm.tsx:178-226
CsvTry(content, uuids, now) == CsvLines(Lines(content), uuids, now)

\* the catch block of the CSV reader.onload after its try block ran as
\* `try`                                                 InputForm.tsx:227-229
CsvCatch(try) ==
    IF try.threw
    THEN Ran(<< Call("setError", Some(CsvErrorMessage(try.thrown))) >>,
             try.ran.uuids, FALSE)
    ELSE try.ran

\* reader.onload of the CSV import                        InputForm.tsx:177-230
CsvOnload(content, uuids, now) == CsvCatch(CsvTry(content, uuids, now))

\* (variant: the extension is compared as it is written)
CsvFileChange_CaseSensitive(file) ==
    IF ~EndsWith(file.name, ".csv")
    THEN Step("done", "",
              << Call("setError", Some("Please select a valid CSV file")) >>)
    ELSE Step("reading", "", << Call("readAsText", file.name) >>)

\* handleCSVFileChange up to reader.readAsText(file)      InputForm.tsx:167-239
CsvFileChange(file) ==
    IF ~EndsWith(ToLowerCase(file.name), ".csv")
    THEN Step("done", "",
              << Call("setError", Some("Please select a valid CSV file")) >>)
    ELSE Step("reading", "", << Call("readAsText", file.name) >>)

handleCSVFileChange(file) ==
    \E step \in {CsvFileChange(file)} : FileChange("csv", file, step)

csvReaderOnload(a) ==
    /\ Awaiting(a, "reading") /\ attempts[a].kind = "csv"
    /\ \E ran \in {CsvOnload(attempts[a].input, uuidCounter, clock + 1)} :
          ReaderCallback(a, "reader.onload", ran)

csvReaderOnerror(a) ==
    /\ Awaiting(a, "reading") /\ attempts[a].kind = "csv"
    /\ \E ran \in {ReaderOnerror} : ReaderCallback(a, "reader.onerror", ran)

-----------------------------------------------------------------------------
Next ==
    \/ \E text \in Inputs : setInput(text)
    \/ \E b \in BOOLEAN : setIsUrlInput(b)
    \/ \E b \in BOOLEAN : setUseMockMode(b)
    \/ \E apiKey \in ApiKeys : handleSubmit(apiKey)
    \/ \E a \in 1..MaxAttempts, w \in WikiContents : fetchResolved(a, w)
    \/ \E a \in 1..MaxAttempts, t \in Thrown : fetchRejected(a, t)
    \/ \E a \in 1..MaxAttempts, c \in ExtractedCards : extractResolved(a, c)
    \/ \E a \in 1..MaxAttempts, t \in Thrown : extractRejected(a, t)
    \/ \E file \in JsonFiles \cup {TextFile, NoFile} :
          handleJSONFileChange(file)
    \/ \E a \in 1..MaxAttempts : jsonReaderOnload(a)
    \/ \E a \in 1..MaxAttempts : jsonReaderOnerror(a)
    \/ \E file \in CsvFiles \cup {TextFile, NoFile} :
          handleCSVFileChange(file)
    \/ \E a \in 1..MaxAttempts : csvReaderOnload(a)
    \/ \E a \in 1..MaxAttempts : csvReaderOnerror(a)

Spec == Init /\ [][Next]_vars

\* the submit side alone, over the further references
SubmitNext ==
    \/ \E text \in References : setInput(text)
    \/ \E b \in BOOLEAN : setIsUrlInput(b)
    \/ \E b \in BOOLEAN : setUseMockMode(b)
    \/ \E apiKey \in ApiKeys : handleSubmit(apiKey)
    \/ \E a \in 1..MaxAttempts, w \in WikiContents : fetchResolved(a, w)
    \/ \E a \in 1..MaxAttempts, t \in Thrown : fetchRejected(a, t)
    \/ \E a \in 1..MaxAttempts, c \in ExtractedCards : extractResolved(a, c)
    \/ \E a \in 1..MaxAttempts, t \in Thrown : extractRejected(a, t)

SubmitSpec == Init /\ [][SubmitNext]_vars

\* the import side alone, over the further files
ImportNext ==
    \/ \E file \in JsonFiles \cup MoreJsonFiles \cup {TextFile, NoFile} :
          handleJSONFileChange(file)
    \/ \E a \in 1..MaxAttempts : jsonReaderOnload(a)
    \/ \E a \in 1..MaxAttempts : jsonReaderOnerror(a)
    \/ \E file \in CsvFiles \cup MoreCsvFiles \cup {TextFile, NoFile} :
          handleCSVFileChange(file)
    \/ \E a \in 1..MaxAttempts : csvReaderOnload(a)
    \/ \E a \in 1..MaxAttempts : csvReaderOnerror(a)

ImportSpec == Init /\ [][ImportNext]_vars

-----------------------------------------------------------------------------
(* Vocabulary of the properties: what an attempt did, read from its log.   *)

Attempts == 1..Len(attempts)
IsSubmit(a) == attempts[a].kind = "submit"
IsImport(a) == attempts[a].kind \in {"json", "csv"}
Done(a) == attempts[a].pc = "done"

\* positions in the log of attempt a of the calls to fn
Positions(a, fn) ==
    {i \in 1..Len(attempts[a].log) : attempts[a].log[i].fn = fn}

\* the arguments of the calls attempt a made to fn
ArgsTo(a, fn) == {attempts[a].log[i].arg : i \in Positions(a, fn)}

Called(a, fn) == Positions(a, fn) # {}

\* attempt a called setter fn with the argument arg
Set(a, fn, arg) == \E i \in Positions(a, fn) : attempts[a].log[i].arg = arg

\* the message attempt a left on the error channel (Null: none)
Reported(a) == LastArg(attempts[a].log, "setError", Null)

\* the messages and the Collections attempt a delivered
Messages(a) == ArgsTo(a, "setError") \ {Null}
Collections(a) == {c[1] : c \in ArgsTo(a, "setFlashcardSet")}

\* attempt a called neither collaborator and delivered no Collection
Quiet(a) ==
    /\ ~Called(a, "fetchWikipediaContent")
    /\ ~Called(a, "extractFlashcards")
    /\ ~Called(a, "setFlashcardSet")

\* the API key attempt a read is set and not blank
KeyPresent(a) ==
    \E key \in ArgsTo(a, "getLLMConfig") : key # Null /\ Trim(key[1]) # ""

\* submit attempt a got past the empty-input and the credential check
PassedChecks(a) ==
    IsSubmit(a) /\ Trim(attempts[a].input) # "" /\ KeyPresent(a)

-----------------------------------------------------------------------------
(* C1: a submit attempt that passes the empty-input and credential checks  *)
(* sets loading to true, and on every exit (invalid URL, fetch failure,    *)
(* extraction failure, success) its last word on loading is false; when no *)
(* submit attempt is in flight, loading is false.                          *)
C1_LoadingAssertedThenCleared ==
    /\ \A a \in Attempts :
          PassedChecks(a) =>
             /\ Set(a, "setLoading", TRUE)
             /\ Done(a) => LastArg(attempts[a].log, "setLoading", TRUE) = FALSE
    /\ (\A a \in Attempts : IsSubmit(a) => Done(a)) => loading = FALSE

C1_Witness ==
    \E a \in Attempts :
       /\ PassedChecks(a) /\ Done(a)
       /\ Called(a, "fetchWikipediaContent.rejected")
       /\ Set(a, "setLoading", TRUE)
       /\ loading = FALSE

(* C2: with an empty or whitespace-only input, or with an absent or blank  *)
(* API key, submit reports the input message resp. the credential message, *)
(* calls neither collaborator, delivers no Collection and never touches    *)
(* loading.                                                                *)
C2_PreconditionFailures ==
    \A a \in Attempts :
       IsSubmit(a) =>
          /\ Trim(attempts[a].input) = "" =>
                /\ Done(a) /\ Quiet(a) /\ ~Called(a, "setLoading")
                /\ Reported(a) = Some("Please enter a Wikipedia URL or text")
          /\ Trim(attempts[a].input) # "" /\ ~KeyPresent(a) =>
                /\ Done(a) /\ Quiet(a) /\ ~Called(a, "setLoading")
                /\ Reported(a) = Some("Please set your API key in LLM Settings")

C2_Witness ==
    \E a, b \in Attempts :
       /\ IsSubmit(a) /\ attempts[a].input = "  "
       /\ IsSubmit(b) /\ Trim(attempts[b].input) # "" /\ ~KeyPresent(b)
       /\ Set(b, "getLLMConfig", Some("  "))
       /\ loading = FALSE

(* C3 as stated: in URL mode, every reference the validator rejects ends   *)
(* in the message 'Please enter a valid Wikipedia URL', with no call to a  *)
(* collaborator and no Collection.                                         *)
C3_Original ==
    \A a \in Attempts :
       IsSubmit(a) /\ attempts[a].isUrl
                   /\ ~isValidWikipediaUrl(attempts[a].input) =>
          /\ Done(a) /\ Quiet(a)
          /\ Reported(a) = Some("Please enter a valid Wikipedia URL")

(* C3 amended: in URL mode, every reference that passes the empty-input    *)
(* and credential checks and that the validator rejects ends in the        *)
(* message 'Please enter a valid Wikipedia URL', with no call to a         *)
(* collaborator and no Collection.                                         *)
C3_InvalidUrlRejected ==
    \A a \in Attempts :
       PassedChecks(a) /\ attempts[a].isUrl
                       /\ ~isValidWikipediaUrl(attempts[a].input) =>
          /\ Done(a) /\ Quiet(a)
          /\ Reported(a) = Some("Please enter a valid Wikipedia URL")

C3_Witness ==
    \E a \in Attempts :
       /\ PassedChecks(a) /\ attempts[a].isUrl
       /\ attempts[a].input = "https://example.com/x"
       /\ error = Some("Please enter a valid Wikipedia URL")

(* C4: within one submit attempt the fetcher is called at most once and    *)
(* the extraction service at most once; in URL mode the extraction call    *)
(* comes after the fetch call has returned; after a failed fetch the       *)
(* extraction service is not called.                                       *)
C4_FetchThenExtract ==
    \A a \in Attempts :
       IsSubmit(a) =>
          /\ Cardinality(Positions(a, "fetchWikipediaContent")) <= 1
          /\ Cardinality(Positions(a, "extractFlashcards")) <= 1
          /\ \A e \in Positions(a, "extractFlashcards") :
                (attempts[a].isUrl \/ Called(a, "fetchWikipediaContent")) =>
                   \E f \in Positions(a, "fetchWikipediaContent") :
                   \E r \in Positions(a, "fetchWikipediaContent.resolved") :
                      f < r /\ r < e
          /\ Called(a, "fetchWikipediaContent.rejected") =>
                ~Called(a, "extractFlashcards")

C4_Witness ==
    \E a, b \in Attempts :
       /\ Called(a, "fetchWikipediaContent.resolved")
       /\ Called(a, "extractFlashcards")
       /\ Called(b, "fetchWikipediaContent.rejected") /\ Done(b)

(* C5: in URL mode with a valid reference the fetcher is called with the   *)
(* raw reference, the extraction service receives exactly the content the  *)
(* fetcher returned, and the Collection delivered has the reference as     *)
(* source, the extraction result as cards and the title derived from the   *)
(* reference, not the fetcher's title.                                     *)
C5_UrlModeDataFlow ==
    \A a \in Attempts :
       PassedChecks(a) /\ attempts[a].isUrl
                       /\ isValidWikipediaUrl(attempts[a].input) =>
          /\ ArgsTo(a, "fetchWikipediaContent") = {attempts[a].input}
          /\ \A x \in ArgsTo(a, "extractFlashcards") :
                {x.text} = {w.content :
                              w \in ArgsTo(a, "fetchWikipediaContent.resolved")}
          /\ \A c \in Collections(a) :
                /\ c.source = attempts[a].input
                /\ {c.cards} = ArgsTo(a, "extractFlashcards.resolved")
                /\ c.title = JsString(extractTitleFromUrl(attempts[a].input))
                /\ \A w \in ArgsTo(a, "fetchWikipediaContent.resolved") :
                      c.title # JsString(w.title)

C5_Witness ==
    \E a \in Attempts :
       /\ attempts[a].isUrl
       /\ attempts[a].input = "https://en.wikipedia.org/wiki/Alan_Turing"
       /\ \E c \in Collections(a) :
             /\ c.title = JsString("Alan Turing")
             /\ Len(c.cards) = 1
       /\ flashcardSet # Null

(* C6: in free-text mode the fetcher is never called, the extraction       *)
(* service receives the literal input, and the Collection delivered has    *)
(* the title 'Custom Text Flashcards' and the source 'Custom text',        *)
(* whatever the input is, a URL included.                                  *)
C6_TextModeDataFlow ==
    \A a \in Attempts :
       PassedChecks(a) /\ ~attempts[a].isUrl =>
          /\ ~Called(a, "fetchWikipediaContent")
          /\ \A x \in ArgsTo(a, "extractFlashcards") :
                x.text = attempts[a].input
          /\ Called(a, "extractFlashcards")
          /\ \A c \in Collections(a) :
                /\ c.title = JsString("Custom Text Flashcards")
                /\ c.source = "Custom text"

C6_Witness ==
    \E a \in Attempts :
       /\ ~attempts[a].isUrl
       /\ attempts[a].input = "https://en.wikipedia.org/wiki/Alan_Turing"
       /\ Collections(a) # {}

FetchFailed(a, thrown) == Set(a, "fetchWikipediaContent.rejected", thrown)
ExtractFailed(a, thrown) == Set(a, "extractFlashcards.rejected", thrown)

(* C7 as stated: an exception of the fetcher or of the extraction service  *)
(* is reported with its raw message kept, under a prefix that tells a      *)
(* fetch failure from an extraction failure: the same exception thrown by  *)
(* the one and by the other gives two different messages.                  *)
C7_Original ==
    /\ \A a \in Attempts : \A t \in Thrown :
          FetchFailed(a, t) \/ ExtractFailed(a, t) =>
             Reported(a) # Null /\ EndsWith(Reported(a)[1], t.message)
    /\ \A a, b \in Attempts : \A t \in Thrown :
          t.isError /\ FetchFailed(a, t) /\ ExtractFailed(b, t) =>
             Reported(a) # Reported(b)

(* C7 amended: an exception of the fetcher or of the extraction service is *)
(* caught and reported as 'Error: ' followed by the raw message of the     *)
(* Error thrown ('Unknown error occurred' when the value thrown is not an  *)
(* Error); the prefix is the same for both collaborators, and no           *)
(* Collection is delivered.                                                *)
C7_ThrownIsReported ==
    \A a \in Attempts : \A t \in Thrown :
       FetchFailed(a, t) \/ ExtractFailed(a, t) =>
          /\ Done(a)
          /\ Reported(a) = Some("Error: " \o (IF t.isError THEN t.message
                                              ELSE "Unknown error occurred"))
          /\ ~Called(a, "setFlashcardSet")

C7_Witness ==
    \E a, b \in Attempts :
       /\ FetchFailed(a, Error("Network error"))
       /\ ExtractFailed(b, Error("Network error"))
       /\ Reported(a) = Some("Error: Network error")
       /\ Reported(b) = Some("Error: Network error")

\* the data rows of the CSV text of attempt a
DataRows(a) == Tail(Lines(attempts[a].input))

\* attempt a ended with exactly one of a Collection and a message
ExactlyOneOutcome(a) ==
    \/ /\ Cardinality(Positions(a, "setFlashcardSet")) = 1
       /\ Messages(a) = {}
    \/ /\ ~Called(a, "setFlashcardSet")
       /\ Messages(a) # {}

(* C8 as stated: every attempt that terminates has delivered exactly one   *)
(* of a Collection and a non-null message, and no row is dropped on the    *)
(* way: a tabular import that delivers a Collection has a card for every   *)
(* data row.                                                               *)
C8_Original ==
    \A a \in Attempts :
       Done(a) =>
          /\ ExactlyOneOutcome(a)
          /\ attempts[a].kind = "csv" =>
                \A c \in Collections(a) : Len(c.cards) = Len(DataRows(a))

(* C8 amended: every submit attempt and every import of a selected file    *)
(* that terminates has delivered exactly one of a Collection and a         *)
(* non-null message, never both and never neither.                         *)
C8_ExactlyOneOutcome ==
    \A a \in Attempts : Done(a) => ExactlyOneOutcome(a)

C8_Witness ==
    \E a, b \in Attempts :
       /\ Done(a) /\ attempts[a].name = "gaps.CSV"
       /\ \E c \in Collections(a) : Len(c.cards) < Len(DataRows(a))
       /\ Done(b) /\ attempts[b].kind = "json" /\ Messages(b) # {}
       /\ Called(b, "reader.onload")

(* C9: at most one submit attempt is in flight at any time.                *)
C9_SingleInFlight ==
    Cardinality({a \in Attempts : IsSubmit(a) /\ ~Done(a)}) <= 1

(* C10: when loading is false, no submit attempt that asserted loading is  *)
(* still awaiting its fetch or its extraction.                             *)
C10_LoadingFalseMeansIdle ==
    loading = FALSE =>
       \A a \in Attempts :
          IsSubmit(a) /\ Set(a, "setLoading", TRUE) => Done(a)

(* C11: the simulated-mode flag a submit attempt passes to the extraction  *)
(* service, in URL mode and in free-text mode, is the preference held when *)
(* the attempt started; a change of the preference while the attempt is    *)
(* awaiting the fetcher does not change it.                                *)
C11_MockFlagOfTheStart ==
    \A a \in Attempts :
       IsSubmit(a) =>
          \A x \in ArgsTo(a, "extractFlashcards") :
             x.useMockMode = attempts[a].mock

C11_Witness ==
    \E a \in Attempts :
       /\ attempts[a].isUrl
       /\ Called(a, "fetchWikipediaContent.resolved")
       /\ attempts[a].pc = "extract"
       /\ useMockMode # attempts[a].mock
       /\ \E x \in ArgsTo(a, "extractFlashcards") :
             x.useMockMode = attempts[a].mock

(* C12: an import, JSON or CSV, never calls the document fetcher or the    *)
(* extraction service and never reads the API key; it ends in its          *)
(* Collection or in its error message whatever the API key is.             *)
C12_ImportNeedsNoKey ==
    \A a \in Attempts :
       IsImport(a) =>
          /\ ~Called(a, "fetchWikipediaContent")
          /\ ~Called(a, "extractFlashcards")
          /\ ~Called(a, "getLLMConfig")
          /\ Done(a) => ExactlyOneOutcome(a)

C12_Witness ==
    \E a, b \in Attempts :
       /\ IsSubmit(a)
       /\ Reported(a) = Some("Please set your API key in LLM Settings")
       /\ a < b /\ IsImport(b) /\ Done(b) /\ Collections(b) # {}

\* h is the domain of the document source or one of its subdomains
DocumentSourceHost(h) == h = "wikipedia.org" \/ EndsWith(h, ".wikipedia.org")

\* the validator accepted the reference of attempt a: the fetcher was called
Accepted(a) == Called(a, "fetchWikipediaContent")

(* C13: the validator accepts a reference only when its host is the domain *)
(* of the document source itself (with or without a subdomain), not when   *)
(* the host merely contains that name; a malformed reference is rejected   *)
(* with the validation message, without an exception.                      *)
C13_ExactHostOnly ==
    \A a \in Attempts :
       PassedChecks(a) /\ attempts[a].isUrl =>
          /\ Accepted(a) =>
                DocumentSourceHost(URLParse(attempts[a].input).hostname)
          /\ ~URLParse(attempts[a].input).ok =>
                /\ ~Accepted(a)
                /\ Reported(a) = Some("Please enter a valid Wikipedia URL")

\* JSON import a ran its reader.onload
Loaded(a) == attempts[a].kind = "json" /\ Called(a, "reader.onload")

\* the value JSON.parse gives for the file of attempt a
FileData(a) == JSONParse(attempts[a].input).val

\* the card records of a file: the list itself, or the list under `cards`
Records(data) ==
    IF data.t = "array" THEN data.v
    ELSE IF Get(data, "cards").t = "array" THEN Get(data, "cards").v
    ELSE <<>>

\* a record that carries a question and an answer
HasBoth(r) ==
    r.t = "object" /\ Truthy(Get(r, "question")) /\ Truthy(Get(r, "answer"))

\* the cards of Collection c are the records, one by one and in order
CardsOf(c, records) ==
    /\ Len(c.cards) = Len(records)
    /\ \A i \in DOMAIN c.cards :
          /\ c.cards[i].question = ToStr(Get(records[i], "question"))
          /\ c.cards[i].answer = ToStr(Get(records[i], "answer"))

(* C14 amended: the JSON import accepts one shape, an object with a        *)
(* `cards` list: when all its records carry a question and an answer it    *)
(* delivers a Collection with one card per record, in the order of the     *)
(* file; a bare list of records is rejected with the message 'Invalid JSON *)
(* format: missing or invalid cards array'.                                *)
C14_CardsObjectOnly ==
    \A a \in Attempts :
       Loaded(a) =>
          LET data == FileData(a)
              records == Records(data)
          IN /\ data.t = "array" =>
                   /\ Collections(a) = {}
                   /\ Reported(a) =
                         Some("Error importing JSON: Invalid JSON "
                              \o "format: missing or invalid cards array")
             /\ ( /\ data.t = "object"
                  /\ Get(data, "cards").t = "array"
                  /\ \A i \in DOMAIN records : HasBoth(records[i]) )
                => \E c \in Collections(a) : CardsOf(c, records)

C14_Witness ==
    \E a, b \in Attempts :
       /\ Loaded(a) /\ attempts[a].name = "list.json" /\ Messages(a) # {}
       /\ Loaded(b) /\ attempts[b].name = "export.json"
       /\ \E c \in Collections(b) : Len(c.cards) = 2

(* C14 as stated: the JSON import accepts a bare list of card records as   *)
(* well as an object with a `cards` list: a file of either shape whose     *)
(* records all carry a question and an answer delivers a Collection with   *)
(* one card per record, in the order of the file.                          *)
C14_BothShapesAccepted ==
    \A a \in Attempts :
       Loaded(a) =>
          LET records == Records(FileData(a))
          IN records # <<>> /\ (\A i \in DOMAIN records : HasBoth(records[i]))
             => \E c \in Collections(a) : CardsOf(c, records)

\* the 1-based positions of the records that lack a question or an answer
Offending(records) == {i \in DOMAIN records : ~HasBoth(records[i])}

\* the least element of a non-empty set of numbers
Least(ns) == CHOOSE n \in ns : \A m \in ns : n <= m

(* C15: a JSON import with a record that lacks a question or an answer     *)
(* delivers no Collection, and its error message names the 1-based         *)
(* position of the first such record: position 1 for                       *)
(* {"cards":[{"question":"Q"}]}.                                           *)
C15_FirstBadRecordByPosition ==
    \A a \in Attempts :
       Loaded(a) =>
          LET data == FileData(a)
              bad  == Offending(Records(data))
          IN data.t = "object" /\ bad # {} =>
                /\ Collections(a) = {}
                /\ Reported(a) # Null
                /\ Includes(Reported(a)[1], NumberToString(Least(bad)))

(* C16: every Collection delivered, by submit, by JSON import or by CSV    *)
(* import, has at least one card: an empty `cards` list or an empty        *)
(* extraction result ends in an error message, not in a Collection.        *)
C16_NoEmptyCollection ==
    \A a \in Attempts :
       /\ \A c \in Collections(a) : Len(c.cards) > 0
       /\ Done(a) /\ ArgsTo(a, "extractFlashcards.resolved") = {<<>>} =>
             Messages(a) # {}
       /\ Loaded(a) /\ Get(FileData(a), "cards") = JsArray(<<>>) =>
             Messages(a) # {}

(* C17: every card of every Collection an import delivers has a question   *)
(* and an answer that are not empty after trimming: a record or a row      *)
(* whose question or answer is only white space never becomes a card.      *)
C17_CardsHaveText ==
    \A a \in Attempts :
       IsImport(a) =>
          \A c \in Collections(a) : \A i \in DOMAIN c.cards :
             /\ Trim(c.cards[i].question) # ""
             /\ Trim(c.cards[i].answer) # ""

\* the ids of the cards of Collection c, in order
Ids(c) == [i \in DOMAIN c.cards |-> c.cards[i].id]

(* C18: in every Collection an import delivers each card has a non-empty   *)
(* id, an id the file supplies is kept, an absent id is synthesized, and   *)
(* the ids of the cards are pairwise distinct.                             *)
C18_IdsDistinct ==
    \A a \in Attempts :
       IsImport(a) =>
          \A c \in Collections(a) :
             /\ \A i \in DOMAIN c.cards : Truthy(Ids(c)[i])
             /\ \A i, j \in DOMAIN c.cards : i # j => Ids(c)[i] # Ids(c)[j]
             /\ Loaded(a) =>
                   LET records == Records(FileData(a))
                   IN \A i \in DOMAIN c.cards :
                         Truthy(Get(records[i], "id")) =>
                            Ids(c)[i] = Get(records[i], "id")

\* a record whose id, question and answer are non-empty strings
Complete(r) ==
    /\ r.t = "object"
    /\ \A key \in {"id", "question", "answer"} :
          Get(r, key).t = "string" /\ Get(r, key).v # ""

\* the card the JSON import makes of a complete record
AsCard(r) ==
    [id |-> Get(r, "id"), question |-> Get(r, "question").v,
     answer |-> Get(r, "answer").v]

(* C19: a JSON import of a well-formed object with a title whose records   *)
(* all carry id, question and answer delivers one Collection: its title is *)
(* the file's title, its source is 'JSON Import' whatever source the file  *)
(* carries, its cards are the file's records in the same order with id,    *)
(* question and answer unchanged; the import then sets the error to null.  *)
C19_ValidJsonImport ==
    \A a \in Attempts :
       Loaded(a) =>
          LET data == FileData(a)
              records == Records(data)
              log == attempts[a].log
          IN ( /\ data.t = "object"
               /\ Get(data, "title").t = "string" /\ Truthy(Get(data, "title"))
               /\ Get(data, "cards").t = "array"
               /\ \A i \in DOMAIN records : Complete(records[i]) )
             => /\ \E c \in Collections(a) :
                      /\ Collections(a) = {c}
                      /\ c.title = Get(data, "title")
                      /\ c.source = "JSON Import"
                      /\ c.cards = [i \in DOMAIN records |-> AsCard(records[i])]
                /\ log[Len(log) - 1].fn = "setFlashcardSet"
                /\ log[Len(log)] = Call("setError", Null)

C19_Witness ==
    \E a \in Attempts :
       /\ Loaded(a) /\ attempts[a].name = "export.json"
       /\ Get(FileData(a), "source") = JsString("S")
       /\ \E c \in Collections(a) :
             /\ c.title = JsString("Deck") /\ c.source = "JSON Import"
             /\ Len(c.cards) = 2
             /\ flashcardSet = Some(c)
       /\ error = Null

\* the file name of attempt a without its extension, in lower case
BaseName(a) ==
    ToLowerCase(SubSeq(attempts[a].name, 1,
                       LastIndexOf(attempts[a].name, ".") - 1))

\* text s mentions the file name of attempt a
NamesFile(s, a) == Includes(ToLowerCase(s), BaseName(a))

(* C20 as stated: on a successful import title and source come from the    *)
(* name of the file: for a JSON file without title the title is a form of  *)
(* the file name, without source the source refers to the file name; for a *)
(* CSV file both always come from the file name.                           *)
C20_Original ==
    \A a \in Attempts :
       IsImport(a) =>
          \A c \in Collections(a) :
             /\ attempts[a].kind = "csv" =>
                   NamesFile(ToStr(c.title), a) /\ NamesFile(c.source, a)
             /\ Loaded(a) /\ ~Truthy(Get(FileData(a), "title")) =>
                   NamesFile(ToStr(c.title), a)
             /\ Loaded(a) /\ ~Truthy(Get(FileData(a), "source")) =>
                   NamesFile(c.source, a)

(* C20 amended: on a successful import title and source do not depend on   *)
(* the name of the file: a JSON import has the title of the file or, when  *)
(* the file has none, 'Imported JSON Flashcards', and the source 'JSON     *)
(* Import'; a CSV import has the title 'Imported CSV Flashcards' and the   *)
(* source 'CSV Import'.                                                    *)
C20_FixedLabels ==
    \A a \in Attempts :
       IsImport(a) =>
          \A c \in Collections(a) :
             /\ attempts[a].kind = "csv" =>
                   /\ c.title = JsString("Imported CSV Flashcards")
                   /\ c.source = "CSV Import"
             /\ Loaded(a) =>
                   /\ c.source = "JSON Import"
                   /\ c.title = IF Truthy(Get(FileData(a), "title"))
                                THEN Get(FileData(a), "title")
                                ELSE JsString("Imported JSON Flashcards")

C20_Witness ==
    \E a, b \in Attempts :
       /\ attempts[a].name = "plain.json"
       /\ \E c \in Collections(a) :
             c.title = JsString("Imported JSON Flashcards")
       /\ attempts[b].name = "deck.csv"
       /\ \E c \in Collections(b) : c.source = "CSV Import"

\* CSV import a ran its reader.onload on a text of at least two lines
CsvLoaded(a) ==
    /\ attempts[a].kind = "csv" /\ Called(a, "reader.onload")
    /\ Len(Lines(attempts[a].input)) >= 2

\* the column names of the CSV text of attempt a, as the import compares
\* them
ColumnNames(a) == Headers(Lines(attempts[a].input)[1])

\* the message of a CSV import without the two columns
NoColumns ==
    Some("Error importing CSV: CSV file must contain \"Question\" and "
         \o "\"Answer\" columns")

(* C21 as stated: the CSV import takes as question column a column whose   *)
(* name contains 'question' and as answer column one whose name contains   *)
(* 'answer'; it fails with the message naming 'Question' and 'Answer'      *)
(* exactly when no column contains one of the two terms.                   *)
C21_Original ==
    \A a \in Attempts :
       CsvLoaded(a) =>
          LET names == ColumnNames(a)
          IN (Reported(a) = NoColumns)
                <=> ~ /\ \E i \in DOMAIN names : Includes(names[i], "question")
                      /\ \E i \in DOMAIN names : Includes(names[i], "answer")

(* C21 amended: the CSV import takes as question column the column whose   *)
(* name, trimmed, lower-cased and without quote characters, is exactly     *)
(* 'question', and as answer column the one whose name is exactly          *)
(* 'answer'; it fails with the message naming 'Question' and 'Answer'      *)
(* exactly when one of the two names is missing.                           *)
C21_ExactColumnNames ==
    \A a \in Attempts :
       CsvLoaded(a) =>
          LET names == ColumnNames(a)
          IN (Reported(a) = NoColumns)
                <=> ~ /\ \E i \in DOMAIN names : names[i] = "question"
                      /\ \E i \in DOMAIN names : names[i] = "answer"

C21_Witness ==
    \E a, b \in Attempts :
       /\ CsvLoaded(a) /\ attempts[a].name = "terms.csv"
       /\ Reported(a) = NoColumns
       /\ CsvLoaded(b) /\ attempts[b].name = "gaps.CSV"
       /\ Collections(b) # {}

\* the position of the column called name in the CSV text of attempt a
\* (0: none)
Column(a, name) == FindIndex(ColumnNames(a), name)

\* CSV import a found both columns
HasColumns(a) ==
    CsvLoaded(a) /\ Column(a, "question") > 0 /\ Column(a, "answer") > 0

\* the field of a data row in the column at position col ("" when the row
\* is too short)
Field(row, col) ==
    IF col <= Len(Values(row)) THEN Values(row)[col] ELSE ""

\* the positions among the data rows of attempt a of the rows that lack a
\* question or an answer
BadRows(a) ==
    {k \in DOMAIN DataRows(a) :
        \/ Field(DataRows(a)[k], Column(a, "question")) = ""
        \/ Field(DataRows(a)[k], Column(a, "answer")) = ""}

\* the question and the answer of the data rows of attempt a that have both
GoodRows(a) ==
    LET good(row) == /\ Field(row, Column(a, "question")) # ""
                     /\ Field(row, Column(a, "answer")) # ""
        kept == SelectSeq(DataRows(a), good)
    IN [k \in DOMAIN kept |->
           [question |-> Field(kept[k], Column(a, "question")),
            answer |-> Field(kept[k], Column(a, "answer"))]]

\* the question and the answer of the cards of Collection c, in order
Content(c) ==
    [i \in DOMAIN c.cards |->
        [question |-> c.cards[i].question, answer |-> c.cards[i].answer]]

NoValidRows == Some("Error importing CSV: No valid flashcards found in CSV file")

(* C22 as stated: in a CSV import a data row with too few fields, or with  *)
(* an empty question or answer, makes the whole import fail with a message *)
(* that names the row by its 1-based number (the header is row 1); no      *)
(* Collection is delivered.                                                *)
C22_Original ==
    \A a \in Attempts :
       HasColumns(a) /\ BadRows(a) # {} =>
          /\ Collections(a) = {}
          /\ Reported(a) # Null
          /\ Includes(Reported(a)[1], NumberToString(Least(BadRows(a)) + 1))

(* C22 amended: in a CSV import a data row with too few fields, or with an *)
(* empty question or answer, is skipped without a message; the cards are   *)
(* the remaining rows in order, and the import fails, with 'No valid       *)
(* flashcards found in CSV file' and no row number, only when no row       *)
(* remains.                                                                *)
C22_BadRowsSkipped ==
    \A a \in Attempts :
       HasColumns(a) =>
          IF GoodRows(a) = <<>>
          THEN Collections(a) = {} /\ Reported(a) = NoValidRows
          ELSE /\ Messages(a) = {}
               /\ \E c \in Collections(a) : Content(c) = GoodRows(a)

C22_Witness ==
    \E a, b \in Attempts :
       /\ HasColumns(a) /\ attempts[a].name = "holes.csv"
       /\ BadRows(a) = {1, 3}
       /\ \E c \in Collections(a) : Len(c.cards) = 2
       /\ HasColumns(b) /\ attempts[b].name = "void.csv"
       /\ Reported(b) = NoValidRows

\* CSV import a read its file
CsvRead(a) == attempts[a].kind = "csv" /\ Called(a, "reader.onload")

TooFewLines ==
    Some("Error importing CSV: CSV file must contain at least a header row "
         \o "and one data row")

(* C23: a CSV import never delivers a Collection without cards: a file     *)
(* with fewer than two non-empty lines fails, and so does a file none of   *)
(* whose data rows is accepted; in both cases a message is reported and    *)
(* setFlashcardSet is not called.                                          *)
C23_NoEmptyCsvCollection ==
    \A a \in Attempts :
       CsvRead(a) =>
          /\ \A c \in Collections(a) : Len(c.cards) > 0
          /\ Len(Lines(attempts[a].input)) < 2 =>
                 Reported(a) = TooFewLines /\ ~Called(a, "setFlashcardSet")
          /\ HasColumns(a) /\ GoodRows(a) = <<>> =>
                 Reported(a) = NoValidRows /\ ~Called(a, "setFlashcardSet")

C23_Witness ==
    \E a, b \in Attempts :
       /\ CsvRead(a) /\ attempts[a].name = "lone.csv"
       /\ Len(Lines(attempts[a].input)) = 1
       /\ Reported(a) = TooFewLines /\ Collections(a) = {}
       /\ CsvRead(b) /\ attempts[b].name = "void.csv"
       /\ Len(DataRows(b)) = 2 /\ GoodRows(b) = <<>>
       /\ Reported(b) = NoValidRows /\ Collections(b) = {}

\* the fields of a CSV row as they are written: commas separate fields
\* except between a pair of quote characters
RECURSIVE WrittenFields(_, _, _, _, _)
WrittenFields(line, i, quoted, field, fields) ==
    IF i > Len(line) THEN Append(fields, field)
    ELSE IF CharAt(line, i) = "\""
    THEN WrittenFields(line, i + 1, ~quoted, field \o "\"", fields)
    ELSE IF CharAt(line, i) = "," /\ ~quoted
    THEN WrittenFields(line, i + 1, quoted, "", Append(fields, field))
    ELSE WrittenFields(line, i + 1, quoted, field \o CharAt(line, i), fields)

\* a written field without the pair of quote characters that encloses it
Unquoted(field) ==
    LET f == Trim(field)
    IN IF Len(f) >= 2 /\ StartsWithAt(f, "\"", 1) /\ EndsWith(f, "\"")
       THEN SubSeq(f, 2, Len(f) - 1)
       ELSE f

\* the values of the fields of a CSV row
RowFields(line) ==
    LET fields == WrittenFields(line, 1, FALSE, "", <<>>)
    IN [i \in DOMAIN fields |-> Unquoted(fields[i])]

\* the data rows of CSV import a all hold a question and an answer
AllRowsFilled(a) ==
    \A k \in DOMAIN DataRows(a) :
       LET fields == RowFields(DataRows(a)[k])
       IN /\ Len(fields) >= Column(a, "question")
          /\ Len(fields) >= Column(a, "answer")
          /\ fields[Column(a, "question")] # ""
          /\ fields[Column(a, "answer")] # ""

SameImport(a, b) ==
    /\ IsImport(a) /\ IsImport(b)
    /\ attempts[a].kind = attempts[b].kind
    /\ attempts[a].name = attempts[b].name
    /\ attempts[a].input = attempts[b].input
    /\ Called(a, "reader.onload") /\ Called(b, "reader.onload")

(* C25: two imports of the same file, JSON or CSV, that deliver            *)
(* Collections deliver Collections with the same title, the same source    *)
(* and the same questions and answers in the same order; a file that       *)
(* delivers a Collection once delivers one again.                          *)
C25_ReimportEqual ==
    \A a, b \in Attempts :
       SameImport(a, b) =>
          /\ (Collections(a) = {}) <=> (Collections(b) = {})
          /\ \A c \in Collections(a), d \in Collections(b) :
                /\ c.title = d.title
                /\ c.source = d.source
                /\ Content(c) = Content(d)

C25_Witness ==
    \E a, b \in Attempts :
       /\ a # b /\ SameImport(a, b) /\ attempts[a].kind = "csv"
       /\ \E c \in Collections(a), d \in Collections(b) :
             /\ Len(c.cards) = 2 /\ Content(c) = Content(d)
             /\ c.createdAt # d.createdAt

\* the extension the handler of import attempt a asks for, and what it
\* reports for another one
Extension(a) == IF attempts[a].kind = "json" THEN ".json" ELSE ".csv"

WrongExtension(a) ==
    IF attempts[a].kind = "json" THEN "Please select a valid JSON file"
                                 ELSE "Please select a valid CSV file"

\* the name of the file of import attempt a ends with the extension of its
\* kind, whatever the case of its letters
ExtensionMatches(a) == EndsWith(ToLowerCase(attempts[a].name), Extension(a))

(* C26: an import of a file whose name does not end, whatever the case of  *)
(* its letters, with '.json' (JSON import) or '.csv' (CSV import) reports  *)
(* 'Please select a valid JSON file' or 'Please select a valid CSV file'   *)
(* and does nothing else: the file is not read, and neither setFlashcardSet*)
(* nor setLoading is called; a file whose name does end with it is read.   *)
C26_ExtensionChecked ==
    \A a \in Attempts :
       IsImport(a) =>
          IF ExtensionMatches(a)
          THEN Called(a, "readAsText")
          ELSE /\ Done(a)
               /\ attempts[a].log = << Call("setError", Some(WrongExtension(a))) >>

C26_Witness ==
    \E a, b \in Attempts :
       /\ attempts[a].kind = "json" /\ attempts[a].name = TextFile.name
       /\ Reported(a) = Some("Please select a valid JSON file")
       /\ ~Called(a, "readAsText")
       /\ attempts[b].kind = "csv" /\ attempts[b].name = TextFile.name
       /\ Reported(b) = Some("Please select a valid CSV file")
       /\ ~Called(b, "readAsText")
       /\ flashcardSet = Null /\ ~loading

\* the last segment of the path of a reference as it is typed: what follows
\* the last '/' before any query or fragment
TrailingSegment(ref) ==
    LET s == Trim(ref)
        p == SubSeq(s, 1, FirstOf(s, {"?", "#"}, 1) - 1)
    IN SubSeq(p, LastIndexOf(p, "/") + 1, Len(p))

(* C27: the title of the Collection a URL-mode submit delivers is the last *)
(* path segment of the reference with every underscore replaced by a space *)
(* and nothing else changed; for a reference that cannot be parsed the     *)
(* title deriver returns 'Wikipedia Flashcards'.                           *)
C27_TitleIsTrailingSegment ==
    \A a \in Attempts :
       IsSubmit(a) /\ attempts[a].isUrl =>
          /\ \A c \in Collections(a) :
                c.title = JsString(ReplaceAll(TrailingSegment(attempts[a].input),
                                              "_", " "))
          /\ ~URLParse(attempts[a].input).ok =>
                extractTitleFromUrl(attempts[a].input) = "Wikipedia Flashcards"

\* attempt a completes in this step
Completes(a) ==
    /\ a \in DOMAIN attempts' /\ attempts'[a].pc = "done"
    /\ a \in DOMAIN attempts => attempts[a].pc # "done"

\* attempt a has delivered a Collection by the end of this step
Delivers(a) ==
    \E i \in DOMAIN attempts'[a].log : attempts'[a].log[i].fn = "setFlashcardSet"

(* C28: whenever an attempt completes having delivered a Collection, error *)
(* is null; as error is only set by a step that completes an attempt, this *)
(* says that error is null whenever the attempt completed last delivered a *)
(* Collection, whatever the interleaving of submits and imports.           *)
C28_NoErrorBesideResult ==
    [][\A a \in 1..MaxAttempts :
          Completes(a) /\ Delivers(a) => error' = Null]_vars

\* the last word of attempt a on error, by the end of this step, is a
\* message
EndsInError(a) == LastArg(attempts'[a].log, "setError", Null) # Null

(* C29: an attempt that ends in an error (blank input, missing key,        *)
(* invalid URL, fetch or extraction failure, import failure, read error)   *)
(* never calls setFlashcardSet, and the step that completes it leaves      *)
(* flashcardSet, the Collection delivered before if any, as it was.        *)
C29_ErrorLeavesResult ==
    [][\A a \in 1..MaxAttempts :
          Completes(a) /\ EndsInError(a) =>
             ~Delivers(a) /\ flashcardSet' = flashcardSet]_vars

C29_Witness ==
    \E a, b \in Attempts :
       /\ attempts[a].kind = "json" /\ Done(a) /\ Collections(a) # {}
       /\ Done(b) /\ Reported(b) # Null /\ ~Called(b, "setFlashcardSet")
       /\ error = Reported(b)
       /\ flashcardSet # Null /\ flashcardSet[1] \in Collections(a)

=============================================================================
